---- MODULE Spec2Model ----
(***************************************************************************)
(* A model of the YUVBuffer library (yuv-buffer): the dimension and offset *)
(* validators, the format builder, the stride computation, the plane       *)
(* allocator, the frame builder, the copies and the transfer list.  Every  *)
(* library function is synchronous and keeps no state of its own.  For the *)
(* functions of plain values a behaviour of the model is one call: the     *)
(* initial state holds the function about to be called and its arguments,  *)
(* and the step applies the function and records what it returned or       *)
(* threw.  For the functions of objects a behaviour is a sequence of calls *)
(* and of byte writes by the caller over a heap of ArrayBuffers, planes,   *)
(* frames and formats.                                                     *)
(*                                                                         *)
(* JavaScript values are modelled by records [t, hi, lo].  An integer     *)
(* Number is hi * 2^32 + lo with lo a signed 32-bit word, so that the      *)
(* ToInt32 conversion behind `dim | 0` is exactly "keep lo".               *)
(***************************************************************************)
EXTENDS Integers, Sequences, FiniteSets, TLC

VARIABLES pc, op, args, ret, heap, before, after, steps

vars == <<pc, op, args, ret, heap, before, after, steps>>

(***************************************************************************)
(* Bounds of the model.                                                    *)
(***************************************************************************)
MaxSmall == 9
MaxDim == 2
MaxW == 5
MaxH == 2
MaxSrcLen == 9

(***************************************************************************)
(* JavaScript numbers and values.                                          *)
(***************************************************************************)
MaxInt32 == 2147483647
MinInt32 == (-MaxInt32) - 1

Num(h, l) == [t |-> "num", hi |-> h, lo |-> l]
JsInt(n) == Num(0, n)
\* the non-integer number n + 1/2, n the integer hi * 2^32 + lo
Frac(h, l) == [t |-> "frac", hi |-> h, lo |-> l]
NaN == [t |-> "nan", hi |-> 0, lo |-> 0]
PosInfinity == [t |-> "inf", hi |-> 0, lo |-> 0]
NegInfinity == [t |-> "ninf", hi |-> 0, lo |-> 0]
Undefined == [t |-> "undef", hi |-> 0, lo |-> 0]
Null == [t |-> "null", hi |-> 0, lo |-> 0]
\* a non-empty string that is not a numeral, such as "barf"
Str == [t |-> "str", hi |-> 0, lo |-> 0]
EmptyStr == [t |-> "emptystr", hi |-> 0, lo |-> 0]
\* the string holding the decimal numeral of the integer n, such as "24"
NumStr(n) == [t |-> "numstr", hi |-> 0, lo |-> n]
\* {} and []
Obj == [t |-> "obj", hi |-> 0, lo |-> 0]
Arr == [t |-> "arr", hi |-> 0, lo |-> 0]

IsNumber(v) == v.t \in {"num", "frac", "nan", "inf", "ninf"}
IsFinite(v) == v.t \in {"num", "frac"}
Half(v) == IF v.t = "frac" THEN 1 ELSE 0

\* ToNumber of the values above
ToNumber(v) ==
    CASE v.t \in {"undef", "str", "obj"} -> NaN
      [] v.t \in {"null", "emptystr", "arr"} -> JsInt(0)
      [] v.t = "numstr" -> Num(v.hi, v.lo)
      [] OTHER -> v

\* ToBoolean, as `a || b` applies it to a
Truthy(v) ==
    CASE v.t = "num" -> ~(v.hi = 0 /\ v.lo = 0)
      [] v.t \in {"nan", "undef", "null", "emptystr"} -> FALSE
      [] OTHER -> TRUE

\* a || b
Or(a, b) == IF Truthy(a) THEN a ELSE b

\* integer arithmetic on hi * 2^32 + lo, never leaving the 32-bit word
IntAdd(a, b) ==
    LET carry == IF a.lo >= 0 /\ b.lo >= 0 /\ a.lo > MaxInt32 - b.lo THEN 1
                 ELSE IF a.lo < 0 /\ b.lo < 0 /\ a.lo < MinInt32 - b.lo THEN -1
                 ELSE 0
        lo == CASE carry = 1 -> (a.lo + MinInt32) + (b.lo + MinInt32)
                [] carry = -1 -> ((a.lo + MaxInt32) + 1) + ((b.lo + MaxInt32) + 1)
                [] OTHER -> a.lo + b.lo
    IN  [hi |-> a.hi + b.hi + carry, lo |-> lo]

IntNeg(a) ==
    IF a.lo = MinInt32 THEN [hi |-> 1 - a.hi, lo |-> MinInt32]
    ELSE [hi |-> -a.hi, lo |-> -a.lo]

IntSign(a) ==
    IF a.hi > 0 \/ (a.hi = 0 /\ a.lo > 0) THEN 1
    ELSE IF a.hi = 0 /\ a.lo = 0 THEN 0 ELSE -1

\* a + b on Numbers
NumAdd(a, b) ==
    CASE a.t = "nan" \/ b.t = "nan" -> NaN
      [] a.t = "inf" -> IF b.t = "ninf" THEN NaN ELSE PosInfinity
      [] a.t = "ninf" -> IF b.t = "inf" THEN NaN ELSE NegInfinity
      [] b.t \in {"inf", "ninf"} -> b
      [] OTHER ->
           LET s == IntAdd(a, b)
               h == Half(a) + Half(b)
               s1 == IntAdd(s, [hi |-> 0, lo |-> 1])
           IN  CASE h = 0 -> Num(s.hi, s.lo)
                 [] h = 1 -> Frac(s.hi, s.lo)
                 [] OTHER -> Num(s1.hi, s1.lo)

NumNeg(a) ==
    CASE a.t = "nan" -> NaN
      [] a.t = "inf" -> NegInfinity
      [] a.t = "ninf" -> PosInfinity
      [] a.t = "num" -> LET n == IntNeg(a) IN Num(n.hi, n.lo)
      [] OTHER -> \* -(n + 1/2) = (-n - 1) + 1/2
           LET n == IntAdd(IntNeg(a), [hi |-> 0, lo |-> -1]) IN Frac(n.hi, n.lo)

\* a - b, the operands converted by ToNumber
Sub(a, b) == NumAdd(ToNumber(a), NumNeg(ToNumber(b)))

\* a + b for operands that are Numbers
Add(a, b) == NumAdd(a, b)

\* a * b for integers whose product fits the 32-bit word
Mul(a, b) == JsInt(a.lo * b.lo)

\* a % m for a positive integer a and a power of two m <= 2^32
Mod(a, m) == JsInt(a.lo % m)

\* the numeric order: a < b on Numbers (false when either is NaN)
NumLt(a, b) ==
    CASE a.t = "nan" \/ b.t = "nan" -> FALSE
      [] a.t = "inf" \/ b.t = "ninf" -> FALSE
      [] a.t = "ninf" \/ b.t = "inf" -> TRUE
      [] OTHER ->
           \/ a.hi < b.hi
           \/ a.hi = b.hi /\ a.lo < b.lo
           \/ a.hi = b.hi /\ a.lo = b.lo /\ Half(a) < Half(b)

NumEq(a, b) ==
    /\ a.t # "nan" /\ b.t # "nan"
    /\ a.t = b.t /\ a.hi = b.hi /\ a.lo = b.lo

\* a < b and a <= b, the operands converted by ToNumber
Lt(a, b) == NumLt(ToNumber(a), ToNumber(b))
Le(a, b) == LET x == ToNumber(a)
                y == ToNumber(b)
            IN  NumLt(x, y) \/ NumEq(x, y)

\* a === b when b is a Number
StrictEq(a, b) == IsNumber(a) /\ NumEq(a, b)

\* the integer part of a finite Number, truncated towards zero
Trunc(v) ==
    IF v.t = "frac" /\ IntSign(v) < 0
    THEN IntAdd(v, [hi |-> 0, lo |-> 1])
    ELSE [hi |-> v.hi, lo |-> v.lo]

\* v | 0: ToInt32 of ToNumber(v)
ToInt32(v) ==
    LET n == ToNumber(v)
    IN  IF IsFinite(n) THEN JsInt(Trunc(n).lo) ELSE JsInt(0)

(***************************************************************************)
(* What a call does: it returns a value or throws a message.               *)
(***************************************************************************)
InvalidDimension == "YUV plane dimensions must be a positive integer"
InvalidOffset == "YUV plane offsets must be a non-negative integer"
InvalidStride == "Invalid input stride for YUV plane; must be larger than width"
InsufficientBuffer ==
    "Invalid input buffer for YUV plane; must be large enough for stride times height"

Return(v) == [threw |-> FALSE, err |-> "", val |-> v]
Throw(e) == [threw |-> TRUE, err |-> e, val |-> Undefined]
NoResult == [threw |-> FALSE, err |-> "pending", val |-> Undefined]

(***************************************************************************)
(* validateDimension, validateOffset: TRUE when the call throws.           *)
(***************************************************************************)
DimensionThrows(dim) == Le(dim, JsInt(0)) \/ ~StrictEq(dim, ToInt32(dim))

OffsetThrows(dim) == Lt(dim, JsInt(0)) \/ ~StrictEq(dim, ToInt32(dim))

validateDimension(dim) ==
    IF DimensionThrows(dim) THEN Throw(InvalidDimension) ELSE Return(Undefined)

validateOffset(dim) ==
    IF OffsetThrows(dim) THEN Throw(InvalidOffset) ELSE Return(Undefined)

(***************************************************************************)
(* suitableStride                                                          *)
(***************************************************************************)
Alignment == 4

suitableStride(width) ==
    IF DimensionThrows(width) THEN Throw(InvalidDimension)
    ELSE LET remainder == Mod(width, Alignment)
         IN  IF NumEq(remainder, JsInt(0)) THEN Return(width)
             ELSE Return(Add(width, Sub(JsInt(Alignment), remainder)))

(***************************************************************************)
(* format: the defaulting of the ten fields, then their validation in the  *)
(* order of the code.  A field the caller left out reads as Undefined.     *)
(***************************************************************************)
\* Defaulted with the crop size defaulting to the frame size
DefaultedIgnoringCropOrigin(fields) ==
    LET width == fields.width
        height == fields.height
        chromaWidth == Or(fields.chromaWidth, width)
        chromaHeight == Or(fields.chromaHeight, height)
        cropLeft == Or(fields.cropLeft, JsInt(0))
        cropTop == Or(fields.cropTop, JsInt(0))
        cropWidth == Or(fields.cropWidth, width)
        cropHeight == Or(fields.cropHeight, height)
        displayWidth == Or(fields.displayWidth, cropWidth)
        displayHeight == Or(fields.displayHeight, cropHeight)
    IN  [width |-> width, height |-> height,
         chromaWidth |-> chromaWidth, chromaHeight |-> chromaHeight,
         cropLeft |-> cropLeft, cropTop |-> cropTop,
         cropWidth |-> cropWidth, cropHeight |-> cropHeight,
         displayWidth |-> displayWidth, displayHeight |-> displayHeight]

\* Defaulted with the crop origin taken off a crop width that was supplied
DefaultedLessCropLeft(fields) ==
    LET width == fields.width
        height == fields.height
        chromaWidth == Or(fields.chromaWidth, width)
        chromaHeight == Or(fields.chromaHeight, height)
        cropLeft == Or(fields.cropLeft, JsInt(0))
        cropTop == Or(fields.cropTop, JsInt(0))
        cropWidth == Sub(Or(fields.cropWidth, width), cropLeft)
        cropHeight == Or(fields.cropHeight, Sub(height, cropTop))
        displayWidth == Or(fields.displayWidth, cropWidth)
        displayHeight == Or(fields.displayHeight, cropHeight)
    IN  [width |-> width, height |-> height,
         chromaWidth |-> chromaWidth, chromaHeight |-> chromaHeight,
         cropLeft |-> cropLeft, cropTop |-> cropTop,
         cropWidth |-> cropWidth, cropHeight |-> cropHeight,
         displayWidth |-> displayWidth, displayHeight |-> displayHeight]

Defaulted(fields) ==
    LET width == fields.width
        height == fields.height
        chromaWidth == Or(fields.chromaWidth, width)
        chromaHeight == Or(fields.chromaHeight, height)
        cropLeft == Or(fields.cropLeft, JsInt(0))
        cropTop == Or(fields.cropTop, JsInt(0))
        cropWidth == Or(fields.cropWidth, Sub(width, cropLeft))
        cropHeight == Or(fields.cropHeight, Sub(height, cropTop))
        displayWidth == Or(fields.displayWidth, cropWidth)
        displayHeight == Or(fields.displayHeight, cropHeight)
    IN  [width |-> width, height |-> height,
         chromaWidth |-> chromaWidth, chromaHeight |-> chromaHeight,
         cropLeft |-> cropLeft, cropTop |-> cropTop,
         cropWidth |-> cropWidth, cropHeight |-> cropHeight,
         displayWidth |-> displayWidth, displayHeight |-> displayHeight]

\* FirstError with the crop sizes validated before the crop origin
FirstErrorCropSizeFirst(f) ==
    IF DimensionThrows(f.width) THEN InvalidDimension
    ELSE IF DimensionThrows(f.height) THEN InvalidDimension
    ELSE IF DimensionThrows(f.chromaWidth) THEN InvalidDimension
    ELSE IF DimensionThrows(f.chromaHeight) THEN InvalidDimension
    ELSE IF DimensionThrows(f.cropWidth) THEN InvalidDimension
    ELSE IF DimensionThrows(f.cropHeight) THEN InvalidDimension
    ELSE IF OffsetThrows(f.cropLeft) THEN InvalidOffset
    ELSE IF OffsetThrows(f.cropTop) THEN InvalidOffset
    ELSE IF DimensionThrows(f.displayWidth) THEN InvalidDimension
    ELSE IF DimensionThrows(f.displayHeight) THEN InvalidDimension
    ELSE ""

\* FirstError with the display size left unvalidated
FirstErrorNoDisplay(f) ==
    IF DimensionThrows(f.width) THEN InvalidDimension
    ELSE IF DimensionThrows(f.height) THEN InvalidDimension
    ELSE IF DimensionThrows(f.chromaWidth) THEN InvalidDimension
    ELSE IF DimensionThrows(f.chromaHeight) THEN InvalidDimension
    ELSE IF OffsetThrows(f.cropLeft) THEN InvalidOffset
    ELSE IF OffsetThrows(f.cropTop) THEN InvalidOffset
    ELSE IF DimensionThrows(f.cropWidth) THEN InvalidDimension
    ELSE IF DimensionThrows(f.cropHeight) THEN InvalidDimension
    ELSE ""

\* the message of the first validator that throws, "" when none does
FirstError(f) ==
    IF DimensionThrows(f.width) THEN InvalidDimension
    ELSE IF DimensionThrows(f.height) THEN InvalidDimension
    ELSE IF DimensionThrows(f.chromaWidth) THEN InvalidDimension
    ELSE IF DimensionThrows(f.chromaHeight) THEN InvalidDimension
    ELSE IF OffsetThrows(f.cropLeft) THEN InvalidOffset
    ELSE IF OffsetThrows(f.cropTop) THEN InvalidOffset
    ELSE IF DimensionThrows(f.cropWidth) THEN InvalidDimension
    ELSE IF DimensionThrows(f.cropHeight) THEN InvalidDimension
    ELSE IF DimensionThrows(f.displayWidth) THEN InvalidDimension
    ELSE IF DimensionThrows(f.displayHeight) THEN InvalidDimension
    ELSE ""

\* format that also requires the crop rectangle to lie inside the frame
formatCropInsideFrame(fields) ==
    LET f == Defaulted(fields)
        e == FirstError(f)
    IN  IF e # "" THEN Throw(e)
        ELSE IF NumLt(f.width, Add(f.cropLeft, f.cropWidth))
                \/ NumLt(f.height, Add(f.cropTop, f.cropHeight))
             THEN Throw(InvalidDimension)
             ELSE Return(f)

format(fields) ==
    LET f == Defaulted(fields)
        e == FirstError(f)
    IN  IF e # "" THEN Throw(e) ELSE Return(f)

(***************************************************************************)
(* Byte arrays.  A Uint8Array is a truthy value carrying its bytes.        *)
(***************************************************************************)
U8(seq) == [t |-> "u8", hi |-> 0, lo |-> 0, bytes |-> seq]

\* new Uint8Array(size): size zero bytes
NewUint8Array(size) == [i \in 1..size.lo |-> 0]

Min(a, b) == IF a < b THEN a ELSE b
Max(a, b) == IF a > b THEN a ELSE b

\* ToIntegerOrInfinity of a Number
ToIntegerOrInfinity(v) ==
    CASE v.t = "nan" -> JsInt(0)
      [] v.t \in {"inf", "ninf"} -> v
      [] OTHER -> LET n == Trunc(v) IN Num(n.hi, n.lo)

\* the index in 0..len that slice makes of a relative start or end
RelativeIndex(rel, len) ==
    CASE rel.t = "ninf" -> 0
      [] rel.t = "inf" -> len
      [] rel.hi < 0 -> 0
      [] rel.hi > 0 -> len
      [] rel.lo < 0 -> Max(len + rel.lo, 0)
      [] OTHER -> Min(rel.lo, len)

\* bytes.slice(start, end) of a typed array, start and end Numbers:
\* a new array holding the bytes from start up to end
Slice(bytes, start, end) ==
    LET len == Len(bytes)
        k == RelativeIndex(ToIntegerOrInfinity(start), len)
        final == RelativeIndex(ToIntegerOrInfinity(end), len)
    IN  SubSeq(bytes, k + 1, final)

(***************************************************************************)
(* allocPlane                                                              *)
(***************************************************************************)
\* the stride test with the comparison dropped
StrideNeverTooSmall(stride, width) == FALSE

\* stride < width
StrideTooSmall(stride, width) == Lt(stride, width)

\* the buffer test with the offset forgotten
BufferTooSmallIgnoringOffset(source, offset, size) ==
    Lt(JsInt(Len(source.bytes)), size)

\* source.length - offset < size
BufferTooSmall(source, offset, size) ==
    Lt(Sub(JsInt(Len(source.bytes)), offset), size)

allocPlane(width, height, source, stride, offset) ==
    IF DimensionThrows(width) THEN Throw(InvalidDimension)
    ELSE IF DimensionThrows(height) THEN Throw(InvalidDimension)
    ELSE
      LET offset1 == Or(offset, JsInt(0))
          suitable == suitableStride(width)
      IN
      IF ~Truthy(stride) /\ suitable.threw THEN suitable
      ELSE
        LET stride1 == Or(stride, suitable.val)
        IN
        IF DimensionThrows(stride1) THEN Throw(InvalidDimension)
        ELSE IF StrideTooSmall(stride1, width) THEN Throw(InvalidStride)
        ELSE
          LET size == Mul(stride1, height)
          IN
          IF Truthy(source)
          THEN IF BufferTooSmall(source, offset1, size)
               THEN Throw(InsufficientBuffer)
               ELSE Return([bytes |-> Slice(source.bytes, offset1, Add(offset1, size)),
                            stride |-> stride1])
          ELSE Return([bytes |-> NewUint8Array(size),
                       stride |-> Or(stride1, suitable.val)])

(***************************************************************************)
(* Objects.  The heap holds the ArrayBuffers and the plane, frame and      *)
(* format objects that exist, each kind in the order of its creation; an   *)
(* object is known by its index.  A Uint8Array is a window on one          *)
(* ArrayBuffer; two of them share storage when they name the same buffer.  *)
(***************************************************************************)
EmptyHeap == [bufs |-> <<>>, planes |-> <<>>, frames |-> <<>>, formats |-> <<>>]

\* the calls of the validators, of format and of allocPlane on plain values
\* involve no object
NoObjects ==
    /\ heap = EmptyHeap
    /\ before = EmptyHeap
    /\ after = EmptyHeap
    /\ steps = 0

\* a Uint8Array of length bytes of the ArrayBuffer buffer, from byteOffset on
View(b, o, n) ==
    [t |-> "u8", hi |-> 0, lo |-> 0, buffer |-> b, byteOffset |-> o, length |-> n]

\* references to a plane, a frame and a format object
PlaneRef(i) == [t |-> "plane", hi |-> 0, lo |-> i]
FrameRef(i) == [t |-> "frame", hi |-> 0, lo |-> i]
FormatRef(i) == [t |-> "format", hi |-> 0, lo |-> i]

\* the bytes seen through a Uint8Array
ViewBytes(h, view) ==
    SubSeq(h.bufs[view.buffer], view.byteOffset + 1, view.byteOffset + view.length)

\* the objects behind the references
PlaneOf(h, plane) == h.planes[plane.lo]
FrameOf(h, fr) == h.frames[fr.lo]
FormatOf(h, fmt) == h.formats[fmt.lo]

\* a call's outcome: the heap it leaves and what it returned or threw
Outcome(h, r) == [heap |-> h, ret |-> r]

\* subarray in the place of slice: a window on the same ArrayBuffer
TypedArraySubarray(h, view, start, end) ==
    LET k == RelativeIndex(ToIntegerOrInfinity(start), view.length)
        final == RelativeIndex(ToIntegerOrInfinity(end), view.length)
    IN  [heap |-> h,
         view |-> View(view.buffer, view.byteOffset + k, Max(final - k, 0))]

\* view.slice(start, end): a new Uint8Array on a new ArrayBuffer holding
\* the bytes from start up to end
TypedArraySlice(h, view, start, end) ==
    LET bytes == Slice(ViewBytes(h, view), start, end)
    IN  [heap |-> [h EXCEPT !.bufs = Append(@, bytes)],
         view |-> View(Len(h.bufs) + 1, 0, Len(bytes))]

\* new Uint8Array(size) as an object: a new zero-filled ArrayBuffer
NewUint8ArrayOn(h, size) ==
    [heap |-> [h EXCEPT !.bufs = Append(@, NewUint8Array(size))],
     view |-> View(Len(h.bufs) + 1, 0, size.lo)]

\* the bytes allocated before the arguments are looked at
PlaneObjectAllocatedFirst(h, height, source, offset, r) ==
    Outcome([h EXCEPT !.bufs = Append(@, <<>>)], r)

\* lines 178-191 of allocPlane on objects, r being what the lines before
\* them made of the arguments: the bytes are sliced off the source or
\* allocated, and the plane returned is a new object
PlaneObject(h, height, source, offset, r) ==
    IF r.threw THEN Outcome(h, r)
    ELSE
      LET made == IF Truthy(source)
                  THEN TypedArraySlice(h, source, Or(offset, JsInt(0)),
                                       Add(Or(offset, JsInt(0)),
                                           Mul(r.val.stride, height)))
                  ELSE NewUint8ArrayOn(h, Mul(r.val.stride, height))
      IN  Outcome([made.heap EXCEPT !.planes =
                      Append(@, [bytes |-> made.view, stride |-> r.val.stride])],
                  Return(PlaneRef(Len(h.planes) + 1)))

\* allocPlane on objects: source is undefined or a Uint8Array
allocPlaneOn(h, width, height, source, stride, offset) ==
    PlaneObject(h, height, source, offset,
                allocPlane(width, height,
                           IF Truthy(source) THEN U8(ViewBytes(h, source))
                           ELSE source,
                           stride, offset))

lumaPlane(h, fmt, source, stride, offset) ==
    allocPlaneOn(h, FormatOf(h, fmt).width, FormatOf(h, fmt).height,
                 source, stride, offset)

chromaPlane(h, fmt, source, stride, offset) ==
    allocPlaneOn(h, FormatOf(h, fmt).chromaWidth, FormatOf(h, fmt).chromaHeight,
                 source, stride, offset)

\* a plane allocated whether or not one is given
AlwaysAllocated(h, plane, allocated) == allocated

\* y || this.lumaPlane(format) and its like: the plane given, or the
\* outcome of allocating one
GivenOr(h, plane, allocated) ==
    IF Truthy(plane) THEN Outcome(h, Return(plane)) ELSE allocated

\* the return of frame, y1, u1 and v1 being the outcomes of its three lines
FrameObject(h, fmt, y1, u1, v1) ==
    IF v1.ret.threw THEN v1
    ELSE Outcome([v1.heap EXCEPT !.frames =
                     Append(@, [format |-> fmt, y |-> y1.ret.val,
                                u |-> u1.ret.val, v |-> v1.ret.val])],
                 Return(FrameRef(Len(h.frames) + 1)))

\* v = v || this.chromaPlane(format), and the return
FrameFromV(h, fmt, v, y1, u1) ==
    IF u1.ret.threw THEN u1
    ELSE FrameObject(h, fmt, y1, u1,
                     GivenOr(u1.heap, v,
                             chromaPlane(u1.heap, fmt, Undefined, Undefined,
                                         Undefined)))

\* u = u || this.chromaPlane(format), and what follows
FrameFromU(h, fmt, u, v, y1) ==
    IF y1.ret.threw THEN y1
    ELSE FrameFromV(h, fmt, v, y1,
                    GivenOr(y1.heap, u,
                            chromaPlane(y1.heap, fmt, Undefined, Undefined,
                                        Undefined)))

frame(h, fmt, y, u, v) ==
    FrameFromU(h, fmt, u, v,
               GivenOr(h, y, lumaPlane(h, fmt, Undefined, Undefined, Undefined)))

\* a new plane object on the bytes of the original, nothing copied
copyPlaneByReference(h, plane) ==
    Outcome([h EXCEPT !.planes = Append(@, PlaneOf(h, plane))],
            Return(PlaneRef(Len(h.planes) + 1)))

copyPlane(h, plane) ==
    LET p == PlaneOf(h, plane)
        made == TypedArraySlice(h, p.bytes, JsInt(0), JsInt(p.bytes.length))
    IN  Outcome([made.heap EXCEPT !.planes =
                    Append(@, [bytes |-> made.view, stride |-> p.stride])],
                Return(PlaneRef(Len(h.planes) + 1)))

\* a copy of the frame object alone, the planes shared with the original
copyFrameShallow(h, fr) ==
    Outcome([h EXCEPT !.frames = Append(@, FrameOf(h, fr))],
            Return(FrameRef(Len(h.frames) + 1)))

copyFrame(h, fr) ==
    LET f == FrameOf(h, fr)
        y1 == copyPlane(h, f.y)
        u1 == copyPlane(y1.heap, f.u)
        v1 == copyPlane(u1.heap, f.v)
    IN  Outcome([v1.heap EXCEPT !.frames =
                    Append(@, [format |-> f.format, y |-> y1.ret.val,
                               u |-> u1.ret.val, v |-> v1.ret.val])],
                Return(FrameRef(Len(h.frames) + 1)))

\* an Array of the items given
ArrayOf(items) == [t |-> "arr", hi |-> 0, lo |-> Len(items), items |-> items]

\* the ArrayBuffers of a copy of the frame
transferablesOfCopy(h, fr) ==
    LET c == copyFrame(h, fr)
        f == FrameOf(c.heap, c.ret.val)
    IN  Outcome(c.heap, Return(ArrayOf(<<PlaneOf(c.heap, f.y).bytes.buffer,
                                         PlaneOf(c.heap, f.u).bytes.buffer,
                                         PlaneOf(c.heap, f.v).bytes.buffer>>)))

\* the ArrayBuffers of the three planes, by reference
transferables(h, fr) ==
    LET f == FrameOf(h, fr)
    IN  Outcome(h, Return(ArrayOf(<<PlaneOf(h, f.y).bytes.buffer,
                                    PlaneOf(h, f.u).bytes.buffer,
                                    PlaneOf(h, f.v).bytes.buffer>>)))

\* format filling the record it is given
formatInPlace(h, fields) ==
    LET r == format(FormatOf(h, fields))
    IN  IF r.threw THEN Outcome(h, r)
        ELSE Outcome([h EXCEPT !.formats[fields.lo] = r.val], Return(fields))

\* format on objects: fields is a record object, the result a new one
formatOn(h, fields) ==
    LET r == format(FormatOf(h, fields))
    IN  IF r.threw THEN Outcome(h, r)
        ELSE Outcome([h EXCEPT !.formats = Append(@, r.val)],
                     Return(FormatRef(Len(h.formats) + 1)))

(***************************************************************************)
(* The values the calls are tried on.                                      *)
(***************************************************************************)
\* the samples of test/test.js
TestNumbers == {1, 2, 100, 10000, -1, -2, -100, -10000,
                4, 8, 12, 16, 720, 1920, 3840, 3, 5, 999}

SmallInts == {JsInt(n) : n \in (-MaxSmall)..MaxSmall}

\* integers around 2^31 and 2^32, where `dim | 0` stops being the identity
EdgeInts ==
    {JsInt(MaxInt32 - k) : k \in 0..4}
    \cup {Num(1, MinInt32 + k) : k \in 0..4}
    \cup {Num(1, k) : k \in -1..4}
    \cup {JsInt(MinInt32), JsInt(MinInt32 + 1), Num(-1, MaxInt32), Num(-1, 1)}

NonIntegers ==
    {Frac(0, n) : n \in -3..3}
    \cup {Frac(0, MaxInt32), Frac(1, MinInt32), NaN, PosInfinity, NegInfinity}

NonNumbers == {Null, Undefined, Str, EmptyStr, NumStr(24), NumStr(0), Obj, Arr}

JsValues ==
    SmallInts \cup {JsInt(n) : n \in TestNumbers} \cup EdgeInts
    \cup NonIntegers \cup NonNumbers

(***************************************************************************)
(* The calls of the validators and of suitableStride.                      *)
(***************************************************************************)
InitNum ==
    /\ pc = "ready"
    /\ op \in {"validateDimension", "validateOffset", "suitableStride"}
    /\ args \in {[dim |-> v] : v \in JsValues}
    /\ ret = NoResult
    /\ NoObjects

CallValidateDimension ==
    /\ pc = "ready" /\ op = "validateDimension"
    /\ ret' = validateDimension(args.dim)
    /\ pc' = "done"
    /\ UNCHANGED <<op, args, heap, before, after, steps>>

CallValidateOffset ==
    /\ pc = "ready" /\ op = "validateOffset"
    /\ ret' = validateOffset(args.dim)
    /\ pc' = "done"
    /\ UNCHANGED <<op, args, heap, before, after, steps>>

CallSuitableStride ==
    /\ pc = "ready" /\ op = "suitableStride"
    /\ ret' = suitableStride(args.dim)
    /\ pc' = "done"
    /\ UNCHANGED <<op, args, heap, before, after, steps>>

NextNum == CallValidateDimension \/ CallValidateOffset \/ CallSuitableStride

SpecNum == InitNum /\ [][NextNum]_vars

(***************************************************************************)
(* The calls of format.                                                    *)
(***************************************************************************)
FieldNames == <<"width", "height", "chromaWidth", "chromaHeight", "cropLeft",
                "cropTop", "cropWidth", "cropHeight", "displayWidth",
                "displayHeight">>
OptionalFields == {FieldNames[i] : i \in 3..10}
OffsetFields == {"cropLeft", "cropTop"}

Fields(w, h, cw, ch, cl, ct, crw, crh, dw, dh) ==
    [width |-> w, height |-> h, chromaWidth |-> cw, chromaHeight |-> ch,
     cropLeft |-> cl, cropTop |-> ct, cropWidth |-> crw, cropHeight |-> crh,
     displayWidth |-> dw, displayHeight |-> dh]

NoFields ==
    Fields(Undefined, Undefined, Undefined, Undefined, Undefined,
           Undefined, Undefined, Undefined, Undefined, Undefined)

\* the records of README.md and of the spec's examples
ExampleFields ==
    {NoFields,
     [NoFields EXCEPT !.width = JsInt(1920)],
     [NoFields EXCEPT !.width = JsInt(1280), !.height = JsInt(720)],
     [NoFields EXCEPT !.width = JsInt(1920), !.height = JsInt(1088),
                      !.chromaWidth = JsInt(960), !.chromaHeight = JsInt(544),
                      !.cropHeight = JsInt(1080)]}

RequiredDims == {Undefined, JsInt(-1)} \cup {JsInt(n) : n \in 1..MaxDim}

\* every field left out, valid or invalid, the two axes over different samples
ProductInit ==
    \E w \in RequiredDims, h \in RequiredDims,
       cw \in {Undefined, JsInt(2), Frac(0, 0)},
       ch \in {Undefined, JsInt(2), JsInt(-1)},
       cl \in {Undefined, JsInt(0), JsInt(1), JsInt(-1)},
       ct \in {Undefined, JsInt(1), Frac(0, 1)},
       crw \in {Undefined, JsInt(2), JsInt(-1)},
       crh \in {Undefined, JsInt(1), NumStr(1)},
       dw \in {Undefined, JsInt(1), JsInt(-1)},
       dh \in {Undefined, JsInt(2), PosInfinity} :
        args = Fields(w, h, cw, ch, cl, ct, crw, crh, dw, dh)

\* every field either valid or one and the same falsy or odd value
OddValues == {Null, NaN, JsInt(0), EmptyStr, Str, Obj, Arr, NumStr(2),
              Num(1, MinInt32), Num(1, 1), JsInt(MaxInt32)}
Pick(b, v, d) == IF b THEN v ELSE d
OddInit ==
    \E v \in OddValues :
    \E w \in BOOLEAN, h \in BOOLEAN, cw \in BOOLEAN, ch \in BOOLEAN,
       cl \in BOOLEAN, ct \in BOOLEAN, crw \in BOOLEAN, crh \in BOOLEAN,
       dw \in BOOLEAN, dh \in BOOLEAN :
        args = Fields(Pick(w, v, JsInt(3)), Pick(h, v, JsInt(3)),
                      Pick(cw, v, JsInt(3)), Pick(ch, v, JsInt(3)),
                      Pick(cl, v, JsInt(1)), Pick(ct, v, JsInt(1)),
                      Pick(crw, v, JsInt(3)), Pick(crh, v, JsInt(3)),
                      Pick(dw, v, JsInt(3)), Pick(dh, v, JsInt(3)))

InitFormat ==
    /\ pc = "ready"
    /\ op = "format"
    /\ \/ args \in ExampleFields
       \/ ProductInit
       \/ OddInit
    /\ ret = NoResult
    /\ NoObjects

CallFormat ==
    /\ pc = "ready" /\ op = "format"
    /\ ret' = format(args)
    /\ pc' = "done"
    /\ UNCHANGED <<op, args, heap, before, after, steps>>

\* format called on the format it returned
CallFormatAgain ==
    /\ pc = "done" /\ op = "format" /\ ~ret.threw
    /\ args' = ret.val
    /\ ret' = format(ret.val)
    /\ pc' = "again"
    /\ UNCHANGED <<op, heap, before, after, steps>>

NextFormat == CallFormat \/ CallFormatAgain

SpecFormat == InitFormat /\ [][NextFormat]_vars

(***************************************************************************)
(* The calls of allocPlane.  The sizes that reach an allocation are small; *)
(* the widths next to 2^31 and the stride 2^31 are rejected before any.    *)
(***************************************************************************)
\* a source of n bytes, the byte at index i holding i + 1
SourceOf(n) == U8([i \in 1..n |-> i % 256])

WidthInputs ==
    {JsInt(n) : n \in 1..MaxW}
    \cup {Undefined, JsInt(0), JsInt(-1), Frac(0, 2)}
    \cup {JsInt(MaxInt32 - k) : k \in 0..2}
HeightInputs ==
    {JsInt(n) : n \in 1..MaxH} \cup {Undefined, JsInt(0), JsInt(-1)}
SourceInputs == {Undefined} \cup {SourceOf(n) : n \in 0..MaxSrcLen}
StrideInputs ==
    {JsInt(n) : n \in 1..(MaxW + 3)}
    \cup {Undefined, JsInt(0), JsInt(-1), Frac(0, 4), Num(1, MinInt32)}
OffsetInputs ==
    {JsInt(n) : n \in -2..2} \cup {Undefined, Frac(0, 0), Frac(0, -2)}

InitPlane ==
    /\ pc = "ready"
    /\ op = "allocPlane"
    /\ \E w \in WidthInputs, h \in HeightInputs, src \in SourceInputs,
          st \in StrideInputs, off \in OffsetInputs :
            args = [width |-> w, height |-> h, source |-> src,
                    stride |-> st, offset |-> off]
    /\ ret = NoResult
    /\ NoObjects

CallAllocPlane ==
    /\ pc = "ready" /\ op = "allocPlane"
    /\ ret' = allocPlane(args.width, args.height, args.source, args.stride,
                          args.offset)
    /\ pc' = "done"
    /\ UNCHANGED <<op, args, heap, before, after, steps>>

NextPlane == CallAllocPlane

SpecPlane == InitPlane /\ [][NextPlane]_vars

(***************************************************************************)
(* Calls on objects.  The caller starts with one ArrayBuffer, two planes   *)
(* assembled by hand as overlapping windows on it, a frame assembled from  *)
(* them, a complete format and a record of fields whose luma size is valid *)
(* and whose chroma width is not; it then calls the library and writes     *)
(* bytes, in any order.                                                    *)
(***************************************************************************)
MaxSteps == 2
SharedLen == 6

\* the byte a caller writes: one that no buffer holds beforehand
Mark == 255

CompleteFormat ==
    Fields(JsInt(1), JsInt(1), JsInt(1), JsInt(1), JsInt(0), JsInt(0),
           JsInt(1), JsInt(1), JsInt(1), JsInt(1))

\* wider than the four bytes of the caller's planes
InvalidChromaFields ==
    [NoFields EXCEPT !.width = JsInt(5), !.height = JsInt(1),
                     !.chromaWidth = JsInt(-1)]

CallerHeap ==
    [bufs |-> << [i \in 1..SharedLen |-> i] >>,
     planes |-> << [bytes |-> View(1, 0, 4), stride |-> JsInt(4)],
                   [bytes |-> View(1, SharedLen - 4, 4), stride |-> JsInt(4)] >>,
     frames |-> << [format |-> FormatRef(1), y |-> PlaneRef(1),
                    u |-> PlaneRef(2), v |-> PlaneRef(2)] >>,
     formats |-> << CompleteFormat, InvalidChromaFields >>]

PlaneRefs(h) == {PlaneRef(i) : i \in 1..Len(h.planes)}
FrameRefs(h) == {FrameRef(i) : i \in 1..Len(h.frames)}
FormatRefs(h) == {FormatRef(i) : i \in 1..Len(h.formats)}
\* the byte arrays a caller has at hand: those of the planes
Sources(h) == {h.planes[i].bytes : i \in 1..Len(h.planes)}

InitHeap ==
    /\ pc = "ready"
    /\ op = "none"
    /\ args = [none |-> Undefined]
    /\ ret = NoResult
    /\ heap = CallerHeap
    /\ before = CallerHeap
    /\ after = CallerHeap
    /\ steps = 0

\* a call: the heap before, the heap and the result it left
Called(f, a, out) ==
    /\ steps < MaxSteps
    /\ op' = f
    /\ args' = a
    /\ ret' = out.ret
    /\ before' = heap
    /\ heap' = out.heap
    /\ after' = out.heap
    /\ steps' = steps + 1
    /\ pc' = "done"

\* the strides and offsets tried with a source of four bytes or more: all
\* left out, one byte at offset 1, an offset past what the source can give,
\* and offsets below zero
StrideOffsetInputs ==
    {<<Undefined, Undefined>>, <<JsInt(1), JsInt(1)>>, <<Undefined, JsInt(1)>>,
     <<Undefined, JsInt(-1)>>, <<Undefined, Frac(0, -1)>>}

HeapAllocPlane ==
    \E src \in {Undefined} \cup Sources(heap), so \in StrideOffsetInputs :
        Called("allocPlane",
               [width |-> JsInt(1), height |-> JsInt(1), source |-> src,
                stride |-> so[1], offset |-> so[2]],
               allocPlaneOn(heap, JsInt(1), JsInt(1), src, so[1], so[2]))

HeapLumaPlane ==
    \E fmt \in FormatRefs(heap), src \in {Undefined} \cup Sources(heap) :
        Called("lumaPlane",
               [format |-> fmt, source |-> src, stride |-> Undefined,
                offset |-> Undefined],
               lumaPlane(heap, fmt, src, Undefined, Undefined))

HeapChromaPlane ==
    \E fmt \in FormatRefs(heap), src \in {Undefined} \cup Sources(heap) :
        Called("chromaPlane",
               [format |-> fmt, source |-> src, stride |-> Undefined,
                offset |-> Undefined],
               chromaPlane(heap, fmt, src, Undefined, Undefined))

\* the plane created after p, the first one after the last
NextPlaneRef(h, p) == PlaneRef((p.lo % Len(h.planes)) + 1)

\* each plane left out or given: p for y and v, the plane after p for u
HeapFrame ==
    \E fmt \in FormatRefs(heap), p \in PlaneRefs(heap) :
    \E y \in {Undefined, p}, u \in {Undefined, NextPlaneRef(heap, p)},
       v \in {Undefined, p} :
        Called("frame", [format |-> fmt, y |-> y, u |-> u, v |-> v],
               frame(heap, fmt, y, u, v))

HeapCopyPlane ==
    \E plane \in PlaneRefs(heap) :
        Called("copyPlane", [plane |-> plane], copyPlane(heap, plane))

HeapCopyFrame ==
    \E fr \in FrameRefs(heap) :
        Called("copyFrame", [frame |-> fr], copyFrame(heap, fr))

HeapTransferables ==
    \E fr \in FrameRefs(heap) :
        Called("transferables", [frame |-> fr], transferables(heap, fr))

HeapFormat ==
    \E fields \in FormatRefs(heap) :
        Called("format", [fields |-> fields], formatOn(heap, fields))

HeapSuitableStride ==
    \E width \in {JsInt(5), JsInt(0)} :
        Called("suitableStride", [dim |-> width],
               Outcome(heap, suitableStride(width)))

\* the caller writes one byte of one ArrayBuffer
WriteByte ==
    /\ steps < MaxSteps
    /\ \E b \in 1..Len(heap.bufs) :
       \E i \in 1..Len(heap.bufs[b]) :
          heap' = [heap EXCEPT !.bufs[b][i] = Mark]
    /\ steps' = steps + 1
    /\ pc' = "wrote"
    /\ UNCHANGED <<op, args, ret, before, after>>

NextHeap ==
    \/ HeapAllocPlane
    \/ HeapLumaPlane
    \/ HeapChromaPlane
    \/ HeapFrame
    \/ HeapCopyPlane
    \/ HeapCopyFrame
    \/ HeapTransferables
    \/ HeapFormat
    \/ HeapSuitableStride
    \/ WriteByte

SpecHeap == InitHeap /\ [][NextHeap]_vars

(***************************************************************************)
(* The format variant with chroma: {hdec, vdec}: the mapping of             *)
(* coordinates between luma and chroma resolution, by 32-bit shifts.       *)
(***************************************************************************)
MaxDec == 2
TwoTo30 == 1073741824

\* 2 * n in the signed 32-bit word
Double32(n) ==
    IF n >= TwoTo30 THEN (n - TwoTo30) * 2 + MinInt32
    ELSE IF n < -TwoTo30 THEN ((n + TwoTo30) * 2 + MaxInt32) + 1
    ELSE 2 * n

RECURSIVE ShiftLeft32(_, _)
\* n << k on the signed 32-bit word, 0 <= k <= 31
ShiftLeft32(n, k) == IF k = 0 THEN n ELSE ShiftLeft32(Double32(n), k - 1)

\* n >> k on the signed 32-bit word, 0 <= k <= 31
ShiftRight32(n, k) ==
    IF k = 31 THEN (IF n < 0 THEN -1 ELSE 0) ELSE n \div (2 ^ k)

\* x << d and x >> d: both operands through ToInt32, the count modulo 32
Shl(x, d) == JsInt(ShiftLeft32(ToInt32(x).lo, ToInt32(d).lo % 32))
Shr(x, d) == JsInt(ShiftRight32(ToInt32(x).lo, ToInt32(d).lo % 32))

xToChroma(fmt, x) == Shr(x, fmt.chroma.hdec)
yToChroma(fmt, y) == Shr(y, fmt.chroma.vdec)
\* the horizontal mapping shifted by the vertical count
xToLumaByVdec(fmt, x) == Shl(x, fmt.chroma.vdec)
xToLuma(fmt, x) == Shl(x, fmt.chroma.hdec)
yToLuma(fmt, y) == Shl(y, fmt.chroma.vdec)
chromaWidthOf(fmt) == xToChroma(fmt, fmt.frame.width)
chromaHeightOf(fmt) == yToChroma(fmt, fmt.frame.height)

Chroma(h, v) == [hdec |-> JsInt(h), vdec |-> JsInt(v)]
CHROMA_444 == Chroma(0, 0)
CHROMA_422 == Chroma(1, 0)
CHROMA_411 == Chroma(2, 0)
CHROMA_420 == Chroma(1, 1)

ChromaInputs ==
    {CHROMA_444, CHROMA_422, CHROMA_411, CHROMA_420}
    \cup {Chroma(h, v) : h \in 0..MaxDec, v \in 0..MaxDec}

\* coordinates and sizes: small ones, and those next to 2^29, 2^30 and 2^31
CoordInputs ==
    {JsInt(n) : n \in 0..MaxSmall}
    \cup {JsInt(TwoTo30 + k) : k \in -1..1}
    \cup {JsInt(TwoTo30 \div 2 + k) : k \in -1..1}
    \cup {JsInt(MaxInt32 - k) : k \in 0..1}

InitChroma ==
    /\ pc = "ready"
    /\ op \in {"xToChroma", "yToChroma", "xToLuma", "yToLuma", "chromaWidth",
               "chromaHeight"}
    /\ \E c \in ChromaInputs, x \in CoordInputs, y \in CoordInputs :
          args = [format |-> [frame |-> [width |-> x, height |-> y],
                              chroma |-> c],
                  x |-> x, y |-> y, first |-> Undefined]
    /\ ret = NoResult
    /\ NoObjects

Answer(f, v) ==
    /\ pc = "ready" /\ op = f
    /\ ret' = Return(v)
    /\ pc' = "done"
    /\ UNCHANGED <<op, args, heap, before, after, steps>>

CallXToChroma == Answer("xToChroma", xToChroma(args.format, args.x))
CallYToChroma == Answer("yToChroma", yToChroma(args.format, args.y))
CallXToLuma == Answer("xToLuma", xToLuma(args.format, args.x))
CallYToLuma == Answer("yToLuma", yToLuma(args.format, args.y))
CallChromaWidth == Answer("chromaWidth", chromaWidthOf(args.format))
CallChromaHeight == Answer("chromaHeight", chromaHeightOf(args.format))

\* the coordinate returned is converted back
XBackToLuma ==
    /\ pc = "done" /\ op = "xToChroma"
    /\ args' = [args EXCEPT !.first = ret.val]
    /\ ret' = Return(xToLuma(args.format, ret.val))
    /\ pc' = "back"
    /\ UNCHANGED <<op, heap, before, after, steps>>

XBackToChroma ==
    /\ pc = "done" /\ op = "xToLuma"
    /\ args' = [args EXCEPT !.first = ret.val]
    /\ ret' = Return(xToChroma(args.format, ret.val))
    /\ pc' = "back"
    /\ UNCHANGED <<op, heap, before, after, steps>>

NextChroma ==
    \/ CallXToChroma
    \/ CallYToChroma
    \/ CallXToLuma
    \/ CallYToLuma
    \/ CallChromaWidth
    \/ CallChromaHeight
    \/ XBackToLuma
    \/ XBackToChroma

SpecChroma == InitChroma /\ [][NextChroma]_vars

(***************************************************************************)
(* Every call.                                                             *)
(***************************************************************************)
Init == InitNum \/ InitFormat \/ InitPlane \/ InitHeap \/ InitChroma

Next == NextNum \/ NextFormat \/ NextPlane \/ NextHeap \/ NextChroma

Spec == Init /\ [][Next]_vars

(***************************************************************************)
(* Properties of the validators and of suitableStride.                     *)
(***************************************************************************)
IsInteger(v) == v.t = "num"
IsPositiveInteger(v) == IsInteger(v) /\ IntSign(v) > 0
IsNonNegativeInteger(v) == IsInteger(v) /\ IntSign(v) >= 0
Done(f) == pc = "done" /\ op = f
Returned == ~ret.threw
Threw(e) == ret.threw /\ ret.err = e

\* C1: validateDimension(n) fails, with the InvalidDimension error, if and
\* only if n <= 0 or n is not an integer; every integer n > 0 is accepted,
\* with no upper bound.
C1_DimensionFailsIffNotPositiveInteger ==
    Done("validateDimension") =>
        /\ ret.threw <=> ~IsPositiveInteger(args.dim)
        /\ ret.threw => ret.err = InvalidDimension

\* C2: validateOffset(n) fails, with the InvalidOffset error, if and only if
\* n < 0 or n is not an integer; it accepts 0 and every positive integer, so
\* whatever validateDimension accepts.
C2_OffsetFailsIffNotNonNegativeInteger ==
    Done("validateOffset") =>
        /\ ret.threw <=> ~IsNonNegativeInteger(args.dim)
        /\ ret.threw => ret.err = InvalidOffset /\ ret.err # InvalidDimension
        /\ ~DimensionThrows(args.dim) => Returned

\* C3: for every positive integer w, suitableStride(w) returns the smallest
\* multiple of 4 that is >= w: r >= w, r % 4 = 0 and r - w < 4.
C3_StrideIsNextMultipleOfFour ==
    (Done("suitableStride") /\ IsPositiveInteger(args.dim)) =>
        /\ Returned
        /\ IsInteger(ret.val)
        /\ ~NumLt(ret.val, args.dim)
        /\ ret.val.lo % 4 = 0
        /\ NumLt(Sub(ret.val, args.dim), JsInt(4))
        /\ (ret.val = args.dim) <=> (args.dim.lo % 4 = 0)

(***************************************************************************)
(* Properties of format.                                                   *)
(***************************************************************************)
FalsyValues == {JsInt(0), Null, Undefined, NaN, EmptyStr}
Example720 == [NoFields EXCEPT !.width = JsInt(1280), !.height = JsInt(720)]
Example1088 ==
    [NoFields EXCEPT !.width = JsInt(1920), !.height = JsInt(1088),
                     !.chromaWidth = JsInt(960), !.chromaHeight = JsInt(544),
                     !.cropHeight = JsInt(1080)]
Given(v, default) == IF v \in FalsyValues THEN default ELSE v

\* C4: when format succeeds, width and height are those given, each optional
\* field that is missing or falsy holds its default (chroma size = frame size,
\* crop origin = 0, crop size = frame size - crop origin, display size = crop
\* size, each from the fields already resolved), and each optional field
\* given a non-falsy value holds that value.
C4_FormatFillsDefaults ==
    (Done("format") /\ Returned) =>
        LET a == args
            r == ret.val
        IN  /\ r.width = a.width /\ r.height = a.height
            /\ r.chromaWidth = Given(a.chromaWidth, r.width)
            /\ r.chromaHeight = Given(a.chromaHeight, r.height)
            /\ r.cropLeft = Given(a.cropLeft, JsInt(0))
            /\ r.cropTop = Given(a.cropTop, JsInt(0))
            /\ r.cropWidth = Given(a.cropWidth, JsInt(r.width.lo - r.cropLeft.lo))
            /\ r.cropHeight = Given(a.cropHeight, JsInt(r.height.lo - r.cropTop.lo))
            /\ r.displayWidth = Given(a.displayWidth, r.cropWidth)
            /\ r.displayHeight = Given(a.displayHeight, r.cropHeight)
            /\ a = Example720 =>
                 r = Fields(JsInt(1280), JsInt(720), JsInt(1280), JsInt(720),
                            JsInt(0), JsInt(0), JsInt(1280), JsInt(720),
                            JsInt(1280), JsInt(720))
            /\ a = Example1088 =>
                 r = Fields(JsInt(1920), JsInt(1088), JsInt(960), JsInt(544),
                            JsInt(0), JsInt(0), JsInt(1920), JsInt(1080),
                            JsInt(1920), JsInt(1080))

C4_Witness ==
    /\ Done("format") /\ Returned
    /\ args.cropLeft = JsInt(1) /\ args.cropWidth = Undefined
    /\ args.displayWidth = Undefined /\ args.chromaWidth = JsInt(2)
    /\ ret.val.width = JsInt(2) /\ ret.val.displayWidth = JsInt(1)

FieldThrows(f, n) ==
    IF n \in OffsetFields THEN OffsetThrows(f[n]) ELSE DimensionThrows(f[n])
FieldError(n) == IF n \in OffsetFields THEN InvalidOffset ELSE InvalidDimension

\* C5: format fails if and only if, after defaulting, some field is rejected
\* by its validator, and the error is that of the first rejected field in the
\* order width, height, chromaWidth, chromaHeight, cropLeft, cropTop,
\* cropWidth, cropHeight, displayWidth, displayHeight; a missing or invalid
\* width or height gives the dimension error whatever the other fields are.
C5_FormatFailsOnFirstInvalidField ==
    Done("format") =>
        LET f == Defaulted(args)
            bad == {i \in 1..10 : FieldThrows(f, FieldNames[i])}
            first == CHOOSE i \in bad : \A j \in bad : i <= j
        IN  /\ ret.threw <=> bad # {}
            /\ bad # {} => ret.err = FieldError(FieldNames[first])
            /\ (DimensionThrows(args.width) \/ DimensionThrows(args.height))
                 => Threw(InvalidDimension)
            /\ args \in {NoFields, [NoFields EXCEPT !.width = JsInt(1920)]}
                 => Threw(InvalidDimension)

C5_Witness ==
    /\ Done("format") /\ Threw(InvalidOffset)
    /\ args.cropLeft = JsInt(-1) /\ args.cropWidth = JsInt(-1)
    /\ args.displayWidth = JsInt(-1)

\* C6: every record format returns has exactly the ten fields, the eight
\* sizes positive integers and cropLeft and cropTop non-negative integers.
C6_FormatResultIsValid ==
    (Done("format") /\ Returned) =>
        /\ DOMAIN ret.val = {FieldNames[i] : i \in 1..10}
        /\ \A i \in 1..10 :
             LET n == FieldNames[i]
             IN  IF n \in OffsetFields THEN IsNonNegativeInteger(ret.val[n])
                 ELSE IsPositiveInteger(ret.val[n])

C6_Witness ==
    /\ Done("format") /\ Returned
    /\ args.displayWidth = JsInt(1) /\ args.displayHeight = JsInt(2)
    /\ args.cropLeft = JsInt(0) /\ args.cropTop = Undefined

Supplied(v) == v # Undefined
SuppliedFieldsValid ==
    \A i \in 1..10 :
        Supplied(args[FieldNames[i]]) => ~FieldThrows(args, FieldNames[i])
SuppliedFieldsKept ==
    /\ Returned
    /\ \A i \in 1..10 :
         Supplied(args[FieldNames[i]]) => ret.val[FieldNames[i]] = args[FieldNames[i]]
\* the crop origin lies inside the frame on an axis whose crop size is left out
DefaultCropSizePositive(size, origin, whole) ==
    Supplied(size) \/ ~Supplied(origin) \/ origin.lo < whole.lo

\* C7 as stated: whenever every explicitly supplied field is individually
\* valid, format succeeds and returns the supplied values unchanged.
C7_SuppliedValidImpliesSuccess ==
    (Done("format") /\ SuppliedFieldsValid) => SuppliedFieldsKept

\* C7 as amended: whenever width and height are supplied, every explicitly
\* supplied field is accepted by its validator, and on each axis whose crop
\* size is left out the crop origin is smaller than the frame size, format
\* succeeds and returns the supplied values unchanged, with no check of one
\* field against another.
C7_NoCrossFieldConsistency ==
    (/\ Done("format") /\ SuppliedFieldsValid
     /\ Supplied(args.width) /\ Supplied(args.height)
     /\ DefaultCropSizePositive(args.cropWidth, args.cropLeft, args.width)
     /\ DefaultCropSizePositive(args.cropHeight, args.cropTop, args.height))
        => SuppliedFieldsKept

C7_Witness ==
    /\ Done("format") /\ Returned
    /\ \A i \in 1..10 : Supplied(args[FieldNames[i]])
    /\ ret.val.cropLeft.lo + ret.val.cropWidth.lo > ret.val.width.lo
    /\ ret.val.cropTop.lo + ret.val.cropHeight.lo > ret.val.height.lo
    /\ ret.val.chromaWidth.lo > ret.val.width.lo
    /\ ret.val.chromaHeight.lo > ret.val.height.lo
    /\ ret.val.displayWidth # ret.val.cropWidth
    /\ ret.val.displayHeight # ret.val.cropHeight

(***************************************************************************)
(* Properties of allocPlane.                                               *)
(***************************************************************************)
Accepted(v) == ~DimensionThrows(v)
NoSource == args.source = Undefined
\* the smallest multiple of 4 that is >= n
NextMultipleOf4(n) == ((n + 3) \div 4) * 4
AllZero(bytes) == \A i \in 1..Len(bytes) : bytes[i] = 0

\* C8: for every valid width and height, allocPlane(width, height) with no
\* source and no stride returns a plane whose stride is suitableStride(width)
\* and whose bytes are exactly suitableStride(width) * height zero bytes.
C8_FreshPlaneHasSuitableStride ==
    (/\ Done("allocPlane") /\ Accepted(args.width) /\ Accepted(args.height)
     /\ NoSource /\ args.stride = Undefined /\ args.offset = Undefined)
        => /\ Returned
           /\ ret.val.stride = JsInt(NextMultipleOf4(args.width.lo))
           /\ Len(ret.val.bytes) = NextMultipleOf4(args.width.lo) * args.height.lo
           /\ AllZero(ret.val.bytes)

StrideSupplied == args.stride # Undefined

\* C9 as stated: an explicit stride smaller than width fails the call with
\* InvalidStride, and an explicit stride >= width is the returned plane's
\* stride, unrounded, the plane holding stride * height bytes.
C9_ExplicitStrideAsStated ==
    (Done("allocPlane") /\ StrideSupplied) =>
        /\ Lt(args.stride, args.width) => Threw(InvalidStride)
        /\ (Lt(args.width, args.stride) \/ NumEq(args.width, args.stride)) =>
             /\ Returned
             /\ ret.val.stride = args.stride
             /\ NoSource => Len(ret.val.bytes) = args.stride.lo * args.height.lo

\* C9 as amended: with a valid width and height, an explicit stride that
\* validateDimension accepts and that is smaller than width fails the call
\* with InvalidStride; one that is >= width is, whenever the call succeeds,
\* the returned plane's stride, unrounded, and with no source the plane
\* holds stride * height bytes.
C9_ExplicitStride ==
    (/\ Done("allocPlane") /\ StrideSupplied /\ Accepted(args.stride)
     /\ Accepted(args.width) /\ Accepted(args.height)) =>
        /\ args.stride.lo < args.width.lo => Threw(InvalidStride)
        /\ args.stride.lo >= args.width.lo =>
             /\ ret.threw => ~NoSource /\ ret.err = InsufficientBuffer
             /\ Returned =>
                  /\ ret.val.stride = args.stride
                  /\ NoSource =>
                       Len(ret.val.bytes) = args.stride.lo * args.height.lo

C9_Witness ==
    /\ Done("allocPlane") /\ Threw(InvalidStride)
    /\ args.stride = JsInt(4) /\ args.width = JsInt(5)

\* twice source.length - offset, for the offsets tried (integers and halves)
TwiceAvailable ==
    LET len == Len(args.source.bytes)
        off == args.offset
    IN  CASE off = Undefined -> 2 * len
          [] off.t = "num" -> 2 * (len - off.lo)
          [] off.t = "frac" -> 2 * (len - off.lo) - 1

\* C10: with a valid width and height, a stride that validateDimension
\* accepts and that is >= width, and a source, allocPlane fails, with
\* InsufficientBuffer, if and only if source.length - offset < stride *
\* height, and succeeds otherwise.
C10_InsufficientBufferIff ==
    (/\ Done("allocPlane") /\ ~NoSource
     /\ Accepted(args.width) /\ Accepted(args.height)
     /\ Accepted(args.stride) /\ args.stride.lo >= args.width.lo) =>
        LET short == TwiceAvailable < 2 * (args.stride.lo * args.height.lo)
        IN  /\ ret.threw <=> short
            /\ ret.threw => ret.err = InsufficientBuffer

C10_Witness ==
    /\ Done("allocPlane") /\ Threw(InsufficientBuffer)
    /\ args.offset = JsInt(1)
    /\ Len(args.source.bytes) = args.stride.lo * args.height.lo

(***************************************************************************)
(* Properties of the calls on objects.                                     *)
(***************************************************************************)
\* the last call made was f, whatever was written since
Last(f) == pc \in {"done", "wrote"} /\ op = f

\* the ArrayBuffers written since the last call returned
Written == {b \in 1..Len(after.bufs) : heap.bufs[b] # after.bufs[b]}

\* the ArrayBuffers and objects the last call created
NewBufs == (Len(before.bufs) + 1)..Len(after.bufs)
NewPlanes == (Len(before.planes) + 1)..Len(after.planes)

\* the bytes seen now through a Uint8Array are those seen when the last
\* call returned
Untouched(view) == ViewBytes(heap, view) = ViewBytes(after, view)

\* two Uint8Arrays on different ArrayBuffers, and writing into the buffer
\* of either only leaves the bytes of the other as they were
Independent(a, b) ==
    /\ a.buffer # b.buffer
    /\ Written \subseteq {a.buffer} => Untouched(b)
    /\ Written \subseteq {b.buffer} => Untouched(a)

\* C11: when allocPlane succeeds with a source, the bytes returned have
\* length size = stride * height, bytes[i] is source[offset + i] for every
\* 0 <= i < size, and they are an independent copy: the call leaves the
\* source as it was, and a later write to the source does not change the
\* plane nor a write to the plane the source.
C11_SourcePlaneIsIndependentCopy ==
    (Last("allocPlane") /\ Returned /\ Truthy(args.source)) =>
        LET plane == PlaneOf(after, ret.val)
            bytes == ViewBytes(after, plane.bytes)
            source == ViewBytes(before, args.source)
            offset == Or(args.offset, JsInt(0))
            size == plane.stride.lo * args.height.lo
        IN  /\ Len(bytes) = size
            /\ \A i \in 0..(size - 1) :
                  /\ IsNonNegativeInteger(offset)
                  /\ offset.lo + i < Len(source)
                  /\ bytes[i + 1] = source[offset.lo + i + 1]
            /\ ViewBytes(after, args.source) = source
            /\ Independent(plane.bytes, args.source)

\* the independent copy is made: a plane cut from a source at offset 1, and
\* the source written afterwards
C11_Reached ==
    /\ Last("allocPlane") /\ Returned /\ Truthy(args.source)
    /\ args.offset = JsInt(1)
    /\ Written = {args.source.buffer}

\* the planes of a frame
PlaneY(h, fr) == PlaneOf(h, FrameOf(h, fr).y)
PlaneU(h, fr) == PlaneOf(h, FrameOf(h, fr).u)
PlaneV(h, fr) == PlaneOf(h, FrameOf(h, fr).v)

\* plane is one the last call created, on an ArrayBuffer it created, with
\* the suitable stride for width and stride * height bytes, all zero
FreshlyAllocated(plane, width, height) ==
    /\ plane.lo \in NewPlanes
    /\ LET p == PlaneOf(after, plane)
       IN  /\ p.bytes.buffer \in NewBufs
           /\ p.stride = JsInt(NextMultipleOf4(width.lo))
           /\ p.stride.lo >= width.lo
           /\ p.bytes.length = p.stride.lo * height.lo
           /\ Len(after.bufs[p.bytes.buffer]) = p.bytes.length
           /\ AllZero(ViewBytes(after, p.bytes))

\* the plane of the frame is the one supplied, as the caller made it
ReturnedAsIs(plane, given) ==
    /\ plane = given
    /\ PlaneOf(after, plane) = PlaneOf(before, given)

\* C12: frame(format, y, u, v) returns a frame whose format is the format
\* given, in which each supplied plane is the plane given, unchecked, and
\* each omitted plane is freshly allocated from the format: y with stride
\* suitableStride(width) and stride * height bytes, u and v with stride
\* suitableStride(chromaWidth) and stride * chromaHeight bytes.
C12_FrameKeepsOrAllocatesPlanes ==
    (Last("frame") /\ Returned) =>
        LET f == FrameOf(after, ret.val)
            fmt == FormatOf(before, args.format)
        IN  /\ f.format = args.format
            /\ FormatOf(after, f.format) = fmt
            /\ IF Truthy(args.y) THEN ReturnedAsIs(f.y, args.y)
               ELSE FreshlyAllocated(f.y, fmt.width, fmt.height)
            /\ IF Truthy(args.u) THEN ReturnedAsIs(f.u, args.u)
               ELSE FreshlyAllocated(f.u, fmt.chromaWidth, fmt.chromaHeight)
            /\ IF Truthy(args.v) THEN ReturnedAsIs(f.v, args.v)
               ELSE FreshlyAllocated(f.v, fmt.chromaWidth, fmt.chromaHeight)
            /\ (~Truthy(args.u) /\ ~Truthy(args.v)) => f.u # f.v

\* a frame made with y left out and allocated for a width of 5, and u and v
\* two different planes of stride 4 supplied, under a format whose chroma
\* width is invalid
C12_Witness ==
    /\ Last("frame") /\ Returned
    /\ ~Truthy(args.y) /\ Truthy(args.u) /\ Truthy(args.v) /\ args.u # args.v
    /\ ~Accepted(FormatOf(before, args.format).chromaWidth)
    /\ PlaneOf(before, args.u).stride.lo < FormatOf(before, args.format).width.lo
    /\ FrameOf(after, ret.val).y.lo \in NewPlanes

\* C13: for every plane p, copyPlane(p) returns a new plane with the same
\* stride, whose bytes have the length of p.bytes and equal them byte for
\* byte, on storage distinct from p's: after the copy, writing a byte in
\* either plane leaves the other unchanged.
C13_CopyPlaneIsIndependentCopy ==
    Last("copyPlane") =>
        /\ Returned
        /\ ret.val.lo \in NewPlanes
        /\ LET p == PlaneOf(before, args.plane)
               q == PlaneOf(after, ret.val)
           IN  /\ q.stride = p.stride
               /\ q.bytes.length = p.bytes.length
               /\ ViewBytes(after, q.bytes) = ViewBytes(before, p.bytes)
               /\ q.bytes.buffer \in NewBufs
               /\ Independent(p.bytes, q.bytes)

\* a copy made of a plane that is a window on the caller's shared buffer,
\* and a byte of the copy written afterwards
C13_Witness ==
    /\ Last("copyPlane") /\ Returned
    /\ PlaneOf(before, args.plane).bytes.byteOffset > 0
    /\ Written = {PlaneOf(after, ret.val).bytes.buffer}
    /\ ~Untouched(PlaneOf(after, ret.val).bytes)

\* the three planes of a frame, in the order y, u, v
PlanesOf(h, fr) == <<PlaneY(h, fr), PlaneU(h, fr), PlaneV(h, fr)>>
PlaneRefsOf(h, fr) == <<FrameOf(h, fr).y, FrameOf(h, fr).u, FrameOf(h, fr).v>>

\* C14: for every frame f, copyFrame(f) returns a new frame that references
\* the same format as f and whose y, u and v planes are each a copy of the
\* corresponding plane of f: equal bytes and stride, on storage of its own,
\* so that writing a byte in any plane of the copy leaves every plane of f
\* unchanged.
C14_CopyFrameCopiesPlanes ==
    Last("copyFrame") =>
        /\ Returned
        /\ ret.val.lo = Len(before.frames) + 1
        /\ FrameOf(after, ret.val).format = FrameOf(before, args.frame).format
        /\ after.formats = before.formats
        /\ LET ps == PlanesOf(before, args.frame)
               qs == PlanesOf(after, ret.val)
               refs == PlaneRefsOf(after, ret.val)
           IN  /\ \A i \in 1..3 :
                    /\ refs[i].lo \in NewPlanes
                    /\ qs[i].stride = ps[i].stride
                    /\ qs[i].bytes.length = ps[i].bytes.length
                    /\ ViewBytes(after, qs[i].bytes) = ViewBytes(before, ps[i].bytes)
                    /\ qs[i].bytes.buffer \in NewBufs
                    /\ \A j \in 1..3 :
                          /\ i # j => qs[i].bytes.buffer # qs[j].bytes.buffer
                          /\ Independent(qs[i].bytes, ps[j].bytes)
               /\ Written \subseteq {qs[i].bytes.buffer : i \in 1..3} =>
                      \A j \in 1..3 : Untouched(ps[j].bytes)

\* a copy made of the frame whose u and v are one plane overlapping y on the
\* caller's shared buffer, and a byte of the copy's u written afterwards
C14_Witness ==
    /\ Last("copyFrame") /\ Returned
    /\ FrameOf(before, args.frame).u = FrameOf(before, args.frame).v
    /\ Written = {PlaneU(after, ret.val).bytes.buffer}
    /\ ~Untouched(PlaneU(after, ret.val).bytes)

\* C15: for every frame f, transferables(f) returns exactly 3 entries, in
\* the order Y, U, V, each the ArrayBuffer under the corresponding plane's
\* bytes itself, not a copy, and the call leaves the frame, its planes and
\* every buffer unchanged.
C15_TransferablesAreTheBuffers ==
    Last("transferables") =>
        /\ Returned
        /\ ret.val.t = "arr"
        /\ Len(ret.val.items) = 3
        /\ \A i \in 1..3 :
              /\ ret.val.items[i] = PlanesOf(before, args.frame)[i].bytes.buffer
              /\ ret.val.items[i] \in 1..Len(before.bufs)
        /\ after = before

\* the buffers listed of a frame whose three planes lie on three buffers
C15_Witness ==
    /\ Last("transferables") /\ Returned
    /\ Cardinality({ret.val.items[i] : i \in 1..3}) = 3

\* every ArrayBuffer and object that existed before the last call is as it
\* was when the call returned
ExistingUnchanged ==
    /\ SubSeq(after.bufs, 1, Len(before.bufs)) = before.bufs
    /\ SubSeq(after.planes, 1, Len(before.planes)) = before.planes
    /\ SubSeq(after.frames, 1, Len(before.frames)) = before.frames
    /\ SubSeq(after.formats, 1, Len(before.formats)) = before.formats

Failing(f) == Last(f) /\ ret.threw

\* C16 as stated: every failing call of format, suitableStride, allocPlane,
\* lumaPlane, chromaPlane or frame aborts before any buffer is allocated or
\* anything changed, and returns no partial plane or frame.
C16_FailsBeforeAnyAllocation ==
    (\E f \in {"format", "suitableStride", "allocPlane", "lumaPlane",
               "chromaPlane", "frame"} : Failing(f)) =>
        /\ after = before
        /\ ret.val = Undefined

\* C16, amended: every failing call of format, suitableStride, allocPlane,
\* lumaPlane or chromaPlane leaves no buffer allocated; a failing call of
\* frame changes nothing that existed, creates no frame and returns nothing,
\* but has allocated the plane of every omitted argument that precedes the
\* one whose allocation failed: with valid luma and invalid chroma dimensions
\* and y omitted, the Y plane and its buffer and nothing else.
C16_FailsWithoutPartialResult ==
    /\ (\E f \in {"format", "suitableStride", "allocPlane", "lumaPlane",
                  "chromaPlane"} : Failing(f)) =>
          (after = before /\ ret.val = Undefined)
    /\ Failing("frame") =>
          LET fmt == FormatOf(before, args.format)
              lumaValid == Accepted(fmt.width) /\ Accepted(fmt.height)
              chromaValid == Accepted(fmt.chromaWidth) /\ Accepted(fmt.chromaHeight)
          IN  /\ ret.val = Undefined
              /\ ExistingUnchanged
              /\ after.frames = before.frames
              /\ after.formats = before.formats
              /\ Cardinality(NewBufs) = Cardinality(NewPlanes)
              /\ IF ~Truthy(args.y) /\ lumaValid /\ ~chromaValid
                 THEN /\ Cardinality(NewPlanes) = 1
                      /\ FreshlyAllocated(PlaneRef(Len(after.planes)),
                                          fmt.width, fmt.height)
                 ELSE after = before

\* frame fails on the chroma dimensions after it allocated the Y plane
C16_Witness ==
    /\ Failing("frame") /\ ret.err = InvalidDimension
    /\ ~Truthy(args.y) /\ ~Truthy(args.u)
    /\ NewBufs # {}

\* the width and the rows the last call asked a plane for
RequestedWidth ==
    CASE op = "allocPlane" -> args.width
      [] op = "lumaPlane" -> FormatOf(before, args.format).width
      [] op = "chromaPlane" -> FormatOf(before, args.format).chromaWidth
RequestedRows ==
    CASE op = "allocPlane" -> args.height
      [] op = "lumaPlane" -> FormatOf(before, args.format).height
      [] op = "chromaPlane" -> FormatOf(before, args.format).chromaHeight

\* C17: every plane returned by a successful allocPlane, lumaPlane or
\* chromaPlane call, whatever the source, stride and offset given (an
\* offset that is negative or not an integer included), has stride >= width
\* and bytes.length >= stride * rows, width and rows being those the plane
\* was asked for.
C17_PlaneCoversItsRows ==
    ((Last("allocPlane") \/ Last("lumaPlane") \/ Last("chromaPlane"))
     /\ Returned) =>
        LET plane == PlaneOf(after, ret.val)
        IN  /\ plane.stride.lo >= RequestedWidth.lo
            /\ plane.bytes.length >= plane.stride.lo * RequestedRows.lo

LibraryCalls ==
    {"format", "suitableStride", "allocPlane", "lumaPlane", "chromaPlane",
     "frame", "copyPlane", "copyFrame", "transferables"}

\* C18: no library call mutates its arguments: when it returns or throws,
\* every record of fields, format, byte array, plane and frame that existed
\* before it, those passed in included, has the field values and the bytes it
\* had, and format returns a new record, distinct from its input, so that a
\* format shared by many frames is never changed.
C18_ArgumentsNeverMutated ==
    (\E f \in LibraryCalls : Last(f)) =>
        /\ ExistingUnchanged
        /\ (Last("format") /\ Returned) =>
              /\ ret.val # args.fields
              /\ ret.val.lo = Len(before.formats) + 1
              /\ FormatOf(after, args.fields) = FormatOf(before, args.fields)
              /\ FormatOf(after, ret.val) = format(FormatOf(before, args.fields)).val

\* format has returned a new record for the format that the caller's frame
\* references
C18_Witness ==
    /\ Last("format") /\ Returned
    /\ \E i \in 1..Len(before.frames) : before.frames[i].format = args.fields
    /\ steps > 1

(***************************************************************************)
(* Properties of the chroma coordinate mapping.                            *)
(***************************************************************************)
\* a non-negative integer within the signed 32-bit range
IsCoordinate(v) == v.t = "num" /\ v.hi = 0 /\ v.lo >= 0

RECURSIVE TimesPowerOfTwo(_, _)
\* c * 2^d, exactly
TimesPowerOfTwo(c, d) ==
    IF d = 0 THEN c ELSE TimesPowerOfTwo(NumAdd(c, c), d - 1)

\* floor(x / 2^d) of a coordinate
FloorDiv(x, d) == JsInt(x.lo \div (2 ^ d))

\* C19: for every shift count d = hdec (resp. vdec) in 0..2 and every
\* non-negative coordinate within 32-bit range, xToChroma and yToChroma
\* return floor(x / 2^d) and xToLuma and yToLuma return c * 2^d; hence
\* xToChroma(xToLuma(c)) = c for every chroma coordinate c, while
\* xToLuma(xToChroma(x)) = x if and only if x is a multiple of 2^d, and is
\* strictly smaller otherwise; chromaWidth and chromaHeight are
\* floor(frame.width / 2^hdec) and floor(frame.height / 2^vdec).
C19_ShiftsAreDivisionAndProduct ==
    LET hdec == args.format.chroma.hdec.lo
        vdec == args.format.chroma.vdec.lo
    IN  /\ Done("xToChroma") => ret.val = FloorDiv(args.x, hdec)
        /\ Done("yToChroma") => ret.val = FloorDiv(args.y, vdec)
        /\ Done("xToLuma") => ret.val = TimesPowerOfTwo(args.x, hdec)
        /\ Done("yToLuma") => ret.val = TimesPowerOfTwo(args.y, vdec)
        /\ Done("chromaWidth") => ret.val = FloorDiv(args.format.frame.width, hdec)
        /\ Done("chromaHeight") => ret.val = FloorDiv(args.format.frame.height, vdec)
        /\ (pc = "back" /\ op = "xToLuma") => ret.val = args.x
        /\ (pc = "back" /\ op = "xToChroma") =>
              IF args.x.lo % (2 ^ hdec) = 0 THEN ret.val = args.x
              ELSE IsCoordinate(ret.val) /\ ret.val.lo < args.x.lo

\* c * 2^d is itself a non-negative integer within the signed 32-bit range
ProductFits(c, d) == IsCoordinate(TimesPowerOfTwo(c, d))

\* C19, amended: for every shift count in 0..2 and every non-negative
\* coordinate below 2^31, xToChroma and yToChroma return floor(x / 2^d), and
\* xToLuma and yToLuma return c * 2^d wrapped to the signed 32-bit word, which
\* is c * 2^d itself exactly when c * 2^d < 2^31; hence
\* xToChroma(xToLuma(c)) = c for every c with c * 2^d < 2^31, while
\* xToLuma(xToChroma(x)) = x if and only if x is a multiple of 2^d, and is
\* strictly smaller otherwise; chromaWidth and chromaHeight are
\* floor(frame.width / 2^hdec) and floor(frame.height / 2^vdec).
C19_ShiftsWithinInt32 ==
    LET hdec == args.format.chroma.hdec.lo
        vdec == args.format.chroma.vdec.lo
    IN  /\ Done("xToChroma") => ret.val = FloorDiv(args.x, hdec)
        /\ Done("yToChroma") => ret.val = FloorDiv(args.y, vdec)
        /\ Done("xToLuma") =>
              /\ ret.val = ToInt32(TimesPowerOfTwo(args.x, hdec))
              /\ ProductFits(args.x, hdec) <=>
                    ret.val = TimesPowerOfTwo(args.x, hdec)
        /\ Done("yToLuma") =>
              /\ ret.val = ToInt32(TimesPowerOfTwo(args.y, vdec))
              /\ ProductFits(args.y, vdec) <=>
                    ret.val = TimesPowerOfTwo(args.y, vdec)
        /\ Done("chromaWidth") => ret.val = FloorDiv(args.format.frame.width, hdec)
        /\ Done("chromaHeight") => ret.val = FloorDiv(args.format.frame.height, vdec)
        /\ (pc = "back" /\ op = "xToLuma" /\ ProductFits(args.x, hdec)) =>
              ret.val = args.x
        /\ (pc = "back" /\ op = "xToChroma") =>
              IF args.x.lo % (2 ^ hdec) = 0 THEN ret.val = args.x
              ELSE IsCoordinate(ret.val) /\ ret.val.lo < args.x.lo

\* the largest coordinate taken to chroma resolution by a shift of 2 and
\* back, three below where it started
C19_Witness ==
    /\ pc = "back" /\ op = "xToChroma"
    /\ args.x = JsInt(MaxInt32) /\ args.format.chroma.hdec = JsInt(2)
    /\ ret.val = JsInt(MaxInt32 - 3)

(***************************************************************************)
(* format applied to its own result.                                       *)
(***************************************************************************)
\* C20: format is idempotent: for every record x on which format(x)
\* succeeds, format(format(x)) succeeds too and is field for field equal to
\* format(x).
C20_FormatIsIdempotent ==
    (pc = "again" /\ op = "format") =>
        /\ Returned
        /\ \A i \in 1..Len(FieldNames) :
              ret.val[FieldNames[i]] = args[FieldNames[i]]
        /\ ret.val = args

\* format applied again to a format whose crop is off the origin on one
\* axis and at it on the other, and narrower than the frame
C20_Witness ==
    /\ pc = "again" /\ op = "format" /\ Returned
    /\ args.cropLeft = JsInt(1) /\ args.cropTop = JsInt(0)
    /\ args.cropWidth # args.width

\* the ArrayBuffers the caller made, and the planes the library made
CallerBufs == 1..Len(CallerHeap.bufs)
LibraryPlanes(h) == (Len(CallerHeap.planes) + 1)..Len(h.planes)

\* the plane has an ArrayBuffer to itself, of exactly the length of its
\* bytes, which no other plane and no array of the caller is on
OwnStorage(h, i) ==
    LET bytes == h.planes[i].bytes
    IN  /\ bytes.buffer \notin CallerBufs
        /\ bytes.byteOffset = 0
        /\ bytes.length = Len(h.bufs[bytes.buffer])
        /\ \A j \in 1..Len(h.planes) :
              j # i => h.planes[j].bytes.buffer # bytes.buffer

\* bytes is a run of consecutive items of viewed
RunOf(bytes, viewed) ==
    \E k \in 0..Len(viewed) :
        /\ k + Len(bytes) <= Len(viewed)
        /\ bytes = SubSeq(viewed, k + 1, k + Len(bytes))

\* what the last call copied is what was seen through the array it was
\* given, and nothing of the ArrayBuffer around it
CopiesHoldViewedBytes ==
    /\ (Last("copyPlane") /\ Returned) =>
          ViewBytes(after, PlaneOf(after, ret.val).bytes)
              = ViewBytes(before, PlaneOf(before, args.plane).bytes)
    /\ (Last("copyFrame") /\ Returned) =>
          \A i \in 1..3 :
              ViewBytes(after, PlanesOf(after, ret.val)[i].bytes)
                  = ViewBytes(before, PlanesOf(before, args.frame)[i].bytes)
    /\ (/\ pc \in {"done", "wrote"}
        /\ op \in {"allocPlane", "lumaPlane", "chromaPlane"}
        /\ Returned /\ Truthy(args.source)) =>
          RunOf(ViewBytes(after, PlaneOf(after, ret.val).bytes),
                ViewBytes(before, args.source))

\* the library's planes whose bytes are not what they were when the last
\* call returned
Changed == {i \in LibraryPlanes(after) : ~Untouched(after.planes[i].bytes)}

\* the frame the last call returned is one of planes the library allocated
\* or copied: frame without planes given, or copyFrame
FrameOfOwnPlanes ==
    \/ /\ Last("frame") /\ Returned
       /\ ~Truthy(args.y) /\ ~Truthy(args.u) /\ ~Truthy(args.v)
    \/ Last("copyFrame") /\ Returned

\* the items of transferables called on the frame just returned
TransferList == transferables(after, ret.val).ret.val.items

\* C21: after any sequence of allocPlane (with or without source),
\* lumaPlane, chromaPlane, frame, copyPlane, copyFrame and byte writes, no
\* plane created by the library shares storage with another plane or with an
\* array of the caller, also when the planes given are windows on one larger
\* buffer or alias each other: each copy holds exactly the viewed bytes, on
\* storage of the length of the view and not of the backing buffer; a write
\* to the backing buffer or to one plane changes the bytes of no other
\* plane the library created; and the three entries of transferables on a
\* frame returned by frame(format) or copyFrame are pairwise distinct.
C21_LibraryPlanesShareNoStorage ==
    /\ \A i \in LibraryPlanes(heap) : OwnStorage(heap, i)
    /\ CopiesHoldViewedBytes
    /\ Cardinality(Written) <= 1 =>
          /\ Cardinality(Changed) <= 1
          /\ Written \subseteq CallerBufs => Changed = {}
    /\ FrameOfOwnPlanes =>
          \A i \in 1..3 : \A j \in 1..3 :
              i # j => TransferList[i] # TransferList[j]

\* the caller's frame, whose u and v are one plane overlapping y on the
\* shared buffer, copied, and a byte of the shared buffer under both planes
\* written afterwards: the three copies are as they were
C21_Witness ==
    /\ Last("copyFrame") /\ Returned
    /\ FrameOf(before, args.frame).u = FrameOf(before, args.frame).v
    /\ Written = {PlaneY(before, args.frame).bytes.buffer}
    /\ ~Untouched(PlaneY(before, args.frame).bytes)
    /\ ~Untouched(PlaneU(before, args.frame).bytes)
    /\ Cardinality(LibraryPlanes(heap)) = 3

\* C22: for every width w that validateDimension accepts, suitableStride(w)
\* is accepted by validateDimension too, hence suitableStride of it is
\* itself, and allocPlane(w, h) with no explicit stride never fails the
\* validation of its own stride for any valid w and h, the widths within 3
\* of the largest integer validateDimension accepts included.
C22_SuitableStrideIsAccepted ==
    (Done("allocPlane") /\ Accepted(args.width)) =>
        LET stride == suitableStride(args.width)
        IN  /\ ~stride.threw
            /\ Accepted(stride.val)
            /\ suitableStride(stride.val) = stride
            /\ (Accepted(args.height) /\ args.stride = Undefined) =>
                   ~Threw(InvalidDimension)

====
